---------------------------- MODULE Spec2Model ----------------------------
(***************************************************************************)
(* Recurrence-rule translation of the Google Calendar integration          *)
(* (frappe/integrations/doctype/google_calendar/google_calendar.py).       *)
(*                                                                         *)
(* Python values are modelled as follows.                                  *)
(*   str        a TLA+ string; substring tests, split and concatenation    *)
(*              are computed character by character                        *)
(*   None       None (the empty tuple); a value v that may be None is      *)
(*              carried as Some(v), the one-element tuple                  *)
(*   date       its proleptic Gregorian ordinal (date.toordinal())         *)
(*   datetime   [date |-> ordinal, minute |-> minute of the day]           *)
(*   dict       a function on its set of keys                              *)
(* A call is one action: it records the operation in op, its arguments in  *)
(* args and its outcome in ret ([status |-> "ok", value |-> v] or the      *)
(* exception raised).                                                      *)
(***************************************************************************)
EXTENDS Integers, Sequences, FiniteSets, TLC

VARIABLES
    framework_frequencies,  \* the module-level table, shared by all calls
    op,                     \* the last operation called
    args,                   \* its arguments
    ret,                    \* its outcome
    prev,                   \* the call before it, when the two form a chain
    local,                  \* the local variables of a call that runs step by step
    db,                     \* the documents of the site's database, by doctype
    cache,                  \* the hash "google_calendar" of frappe.cache()
    flows                   \* the consent flows started at Google: those not yet
                            \* called back, and how many were started

vars == <<framework_frequencies, op, args, ret, prev, local, db, cache, flows>>

\* the state outside the translators' calls
site == <<local, db, cache, flows>>

None == <<>>
Some(v) == <<v>>
Val(o) == o[1]

Ok(v) == [status |-> "ok", value |-> v]
Raise(e) == [status |-> e]

----------------------------------------------------------------------------
(* Bounds of the model *)

\* number of consecutive days, from 2023-01-01, that dates are drawn from
NumDays == 500
\* longest token list handed to get_recurrence_parameters directly
MaxTokens == 3
\* most weekday codes in a weekly BYDAY list
MaxByDay == 3
\* number of weekdays whose flag a record may have set
NumFlagDays == 2
\* number of clock readings the solver starts from
NumNows == 6

----------------------------------------------------------------------------
(* Python str operations *)

Min(a, b) == IF a < b THEN a ELSE b

\* `sub in s`
Contains(sub, s) ==
    \E i \in 1..(Len(s) - Len(sub) + 1) : SubSeq(s, i, i + Len(sub) - 1) = sub

RECURSIVE FindFrom(_, _, _)
FindFrom(sep, s, i) ==
    IF i > Len(s) THEN 0
    ELSE IF SubSeq(s, i, i) = sep THEN i
    ELSE FindFrom(sep, s, i + 1)

\* s.find(sep) for a one-character sep, 1-based; 0 when absent
Find(sep, s) == FindFrom(sep, s, 1)

RECURSIVE Split(_, _)
\* s.split(sep): the list of the pieces of s between occurrences of sep
Split(s, sep) ==
    LET i == Find(sep, s)
    IN  IF i = 0 THEN <<s>>
        ELSE <<SubSeq(s, 1, i - 1)>> \o Split(SubSeq(s, i + 1, Len(s)), sep)

UpperCase == "ABCDEFGHIJKLMNOPQRSTUVWXYZ"
LowerCase == "abcdefghijklmnopqrstuvwxyz"

LowerChar(c) ==
    LET i == Find(c, UpperCase)
    IN  IF i = 0 THEN c ELSE SubSeq(LowerCase, i, i)

RECURSIVE Lower(_)
\* s.lower()
Lower(s) ==
    IF Len(s) = 0 THEN s
    ELSE LowerChar(SubSeq(s, 1, 1)) \o Lower(SubSeq(s, 2, Len(s)))

\* str(n) and int(s) for the small integers the code converts
Str(n) == ToString(n)
ToInt(s) == CHOOSE n \in -9..9 : ToString(n) = s

----------------------------------------------------------------------------
(* Python date arithmetic (proleptic Gregorian calendar) *)

\* date(y, m, d).toordinal()
Ordinal(y, m, d) ==
    LET yy  == IF m <= 2 THEN y - 1 ELSE y
        era == yy \div 400
        yoe == yy - era * 400
        mp  == IF m > 2 THEN m - 3 ELSE m + 9
        doy == (153 * mp + 2) \div 5 + d - 1
        doe == yoe * 365 + yoe \div 4 - yoe \div 100 + doy
    IN  era * 146097 + doe - 305

\* date.fromordinal(n) as [year, month, day]
Civil(n) ==
    LET z   == n + 305
        era == z \div 146097
        doe == z - era * 146097
        yoe == (doe - doe \div 1460 + doe \div 36524 - doe \div 146096) \div 365
        doy == doe - (365 * yoe + yoe \div 4 - yoe \div 100)
        mp  == (5 * doy + 2) \div 153
        d   == doy - (153 * mp + 2) \div 5 + 1
        m   == IF mp < 10 THEN mp + 3 ELSE mp - 9
        y   == yoe + era * 400 + (IF m <= 2 THEN 1 ELSE 0)
    IN  [year |-> y, month |-> m, day |-> d]

\* dt.day
DayOf(dt) == Civil(dt.date).day

\* dt.weekday(): Monday is 0, Sunday is 6
Weekday(dt) == (dt.date + 6) % 7

\* dt.replace(day=1)
ReplaceDay1(dt) == [dt EXCEPT !.date = dt.date - (DayOf(dt) - 1)]

SameMonth(d1, d2) ==
    /\ Civil(d1.date).year = Civil(d2.date).year
    /\ Civil(d1.date).month = Civil(d2.date).month

\* the dates the model draws from, at midnight
FirstDate == Ordinal(2023, 1, 1)
Dates == { [date |-> FirstDate + k, minute |-> 0] : k \in 0..(NumDays - 1) }

----------------------------------------------------------------------------
(* The module's tables *)

google_calendar_frequencies ==
    [k \in {"RRULE:FREQ=DAILY", "RRULE:FREQ=WEEKLY",
            "RRULE:FREQ=MONTHLY", "RRULE:FREQ=YEARLY"} |->
        CASE k = "RRULE:FREQ=DAILY"   -> "Daily"
          [] k = "RRULE:FREQ=WEEKLY"  -> "Weekly"
          [] k = "RRULE:FREQ=MONTHLY" -> "Monthly"
          [] k = "RRULE:FREQ=YEARLY"  -> "Yearly"]

DayCodes == <<"MO", "TU", "WE", "TH", "FR", "SA", "SU">>
DayNames == <<"monday", "tuesday", "wednesday", "thursday", "friday",
              "saturday", "sunday">>
DayCodeSet == { DayCodes[i] : i \in 1..7 }
DayNameSet == { DayNames[i] : i \in 1..7 }

google_calendar_days ==
    [c \in DayCodeSet |-> DayNames[CHOOSE i \in 1..7 : DayCodes[i] = c]]

framework_days ==
    [n \in DayNameSet |-> DayCodes[CHOOSE i \in 1..7 : DayNames[i] = n]]

\* the value framework_frequencies is given when the module is loaded
InitialFrameworkFrequencies ==
    [k \in {"Daily", "Weekly", "Monthly", "Yearly"} |->
        CASE k = "Daily"   -> [f \in {"FREQ"} |-> "DAILY"]
          [] k = "Weekly"  -> [f \in {"FREQ"} |-> "WEEKLY"]
          [] k = "Monthly" -> [f \in {"FREQ"} |-> "MONTHLY"]
          [] k = "Yearly"  -> [f \in {"FREQ"} |-> "FREQ=YEARLY"]]

\* d.get(k): Some(d[k]), or None for a missing key
Get(d, k) == IF k \in DOMAIN d THEN Some(d[k]) ELSE None

\* d[k] = v on a dict
Put(d, k, v) == [x \in (DOMAIN d) \cup {k} |-> IF x = k THEN v ELSE d[x]]

\* frappe.utils.get_weekdays()
get_weekdays == <<"Monday", "Tuesday", "Wednesday", "Thursday", "Friday",
                  "Saturday", "Sunday">>

\* day.lower() for each day of get_weekdays()
LowerWeekdays == [i \in 1..7 |-> Lower(get_weekdays[i])]

----------------------------------------------------------------------------
(* get_week_number *)

\* CeilDiv7 with the quotient rounded down instead of up
FloorDiv7(n) == n \div 7

\* int(ceil(adjusted_dom / 7.0))
CeilDiv7(n) == (n + 6) \div 7

\* get_week_number without the offset of the month's first day
get_week_number_of_day(dt) == CeilDiv7(DayOf(dt))

get_week_number(dt) ==
    LET first_day    == ReplaceDay1(dt)
        dom          == DayOf(dt)
        adjusted_dom == dom + Weekday(first_day)
    IN  CeilDiv7(adjusted_dom)

----------------------------------------------------------------------------
(* frappe.utils date helpers, as the translators use them *)

\* get_datetime(x): x itself, or the current time when x is None
get_datetime(x, now) == IF x = None THEN now ELSE Val(x)

\* add_days(dt, days) and add_to_date(dt, weeks=weeks)
add_days(dt, days) == [dt EXCEPT !.date = @ + days]
add_weeks(dt, weeks) == [dt EXCEPT !.date = @ + 7 * weeks]

\* add_to_date(dt, minutes=minutes)
add_minutes(dt, minutes) ==
    LET m == dt.minute + minutes
    IN  [date |-> dt.date + m \div 1440, minute |-> m % 1440]

\* getdate(dt): the date of a datetime
getdate(dt) == dt.date

----------------------------------------------------------------------------
(* get_recurrence_parameters *)

\* RecurrenceParameterStep keeping the first token of each key
RecurrenceParameterStepFirst(acc, r) ==
    IF Contains("FREQ", r)
        THEN (IF acc.frequency = None THEN [acc EXCEPT !.frequency = Some(r)] ELSE acc)
    ELSE IF Contains("UNTIL", r)
        THEN (IF acc.until = None THEN [acc EXCEPT !.until = Some(r)] ELSE acc)
    ELSE IF Contains("BYDAY", r)
        THEN (IF acc.byday = None THEN [acc EXCEPT !.byday = Some(r)] ELSE acc)
    ELSE acc

\* one turn of the loop over the tokens: the if / elif chain
RecurrenceParameterStep(acc, r) ==
    IF Contains("FREQ", r) THEN [acc EXCEPT !.frequency = Some(r)]
    ELSE IF Contains("UNTIL", r) THEN [acc EXCEPT !.until = Some(r)]
    ELSE IF Contains("BYDAY", r) THEN [acc EXCEPT !.byday = Some(r)]
    ELSE acc

RECURSIVE RecurrenceParameterLoop(_, _)
RecurrenceParameterLoop(acc, recurrence) ==
    IF recurrence = <<>> THEN acc
    ELSE RecurrenceParameterLoop(RecurrenceParameterStep(acc, Head(recurrence)),
                                 Tail(recurrence))

get_recurrence_parameters(recurrence) ==
    RecurrenceParameterLoop(
        [frequency |-> None, until |-> None, byday |-> None], recurrence)

----------------------------------------------------------------------------
(* parse_google_calendar_recurrence_rule *)

RECURSIVE AlignDayName(_, _)
\* the first loop: step a day at a time until the weekday has the name
AlignDayName(current_date, repeat_day_name) ==
    IF LowerWeekdays[Weekday(current_date) + 1] = repeat_day_name
    THEN current_date
    ELSE AlignDayName(add_days(current_date, 1), repeat_day_name)

RECURSIVE AlignWeekNumber(_, _)
\* the second loop: step a week at a time until the week number matches
AlignWeekNumber(current_date, repeat_day_week_number) ==
    LET week_number == get_week_number(current_date)
        weeks == IF week_number < repeat_day_week_number THEN 1 ELSE -1
    IN  IF week_number = repeat_day_week_number
        THEN current_date
        ELSE AlignWeekNumber(add_weeks(current_date, weeks),
                             repeat_day_week_number)

\* ClampWeekNumber taking a negative week number for the fifth week
ClampWeekNumberTo5(n) == IF n < 0 THEN 5 ELSE n

\* a negative week number is taken as 4
ClampWeekNumber(n) == IF n < 0 THEN 4 ELSE n

parse_google_calendar_recurrence_rule(repeat_day_week_number, repeat_day_name, now) ==
    AlignWeekNumber(AlignDayName(now, repeat_day_name),
                    ClampWeekNumber(repeat_day_week_number))

----------------------------------------------------------------------------
(* google_calendar_to_repeat_on *)

\* the record the function starts from
SeedRepeatOn(start, end, now) ==
    [ starts_on         |-> get_datetime(start, now),
      ends_on           |-> Some(get_datetime(end, now)),
      all_day           |-> IF end # None THEN 0 ELSE 1,
      repeat_this_event |-> IF end # None THEN 1 ELSE 0,
      repeat_on         |-> None,
      repeat_till       |-> None,
      sunday |-> 0, monday |-> 0, tuesday |-> 0, wednesday |-> 0,
      thursday |-> 0, friday |-> 0, saturday |-> 0 ]

\* SetWeeklyFlags leaving the loop after the first day
SetWeeklyFlagsFirstOnly(repeat_on, byday) ==
    IF byday = <<>> THEN repeat_on
    ELSE [repeat_on EXCEPT ![google_calendar_days[Head(byday)]] = 1]

RECURSIVE SetWeeklyFlags(_, _)
\* for repeat_day in byday: repeat_on[google_calendar_days[repeat_day]] = 1
SetWeeklyFlags(repeat_on, byday) ==
    IF byday = <<>> THEN repeat_on
    ELSE SetWeeklyFlags(
            [repeat_on EXCEPT ![google_calendar_days[Head(byday)]] = 1],
            Tail(byday))

\* the strings searched for in a monthly BYDAY, in the order they are tried
WeekNumberCandidates == <<"-2", "-1", "1", "2", "3", "4", "5">>

\* the first entry of candidates that occurs in s, or None
FirstContained(candidates, s) ==
    IF \E i \in 1..Len(candidates) : Contains(candidates[i], s)
    THEN Some(candidates[CHOOSE i \in 1..Len(candidates) :
                /\ Contains(candidates[i], s)
                /\ \A j \in 1..(i - 1) : ~Contains(candidates[j], s)])
    ELSE None

\* MonthlyWeekNumber trying the positive numbers before the negative ones
MonthlyWeekNumberPositiveFirst(byday) ==
    FirstContained(<<"1", "2", "3", "4", "5", "-2", "-1">>, byday)

MonthlyWeekNumber(byday) == FirstContained(WeekNumberCandidates, byday)

MonthlyDayName(byday) ==
    LET day == FirstContained(DayCodes, byday)
    IN  IF day = None THEN None ELSE Get(google_calendar_days, Val(day))

\* the Daily branch
DailyBranch(repeat_on, until) ==
    IF repeat_on.repeat_on = Some("Daily")
    THEN Ok([repeat_on EXCEPT !.ends_on = None, !.repeat_till = until])
    ELSE Ok(repeat_on)

\* the Weekly branch
WeeklyBranch(repeat_on, until, byday) ==
    IF byday # None /\ repeat_on.repeat_on = Some("Weekly")
    THEN LET parts == Split(Val(byday), "=")
         IN  IF Len(parts) < 2 THEN Raise("IndexError")
             ELSE LET days == Split(parts[2], ",")
                  IN  IF \E i \in 1..Len(days) : days[i] \notin DOMAIN google_calendar_days
                      THEN Raise("KeyError")
                      ELSE Ok(SetWeeklyFlags([repeat_on EXCEPT !.repeat_till = until], days))
    ELSE Ok(repeat_on)

\* the Monthly branch. int(None) raises TypeError when no week number is
\* found; when no weekday code is found the solver is given the name None,
\* which no weekday equals, so its first loop never ends: "NoReturn".
MonthlyBranch(repeat_on, until, byday, now) ==
    IF byday # None /\ repeat_on.repeat_on = Some("Monthly")
    THEN LET parts == Split(Val(byday), "=")
         IN  IF Len(parts) < 2 THEN Raise("IndexError")
             ELSE LET repeat_day_week_number == MonthlyWeekNumber(parts[2])
                      repeat_day_name == MonthlyDayName(parts[2])
                  IN  IF repeat_day_week_number = None THEN Raise("TypeError")
                      ELSE IF repeat_day_name = None THEN Raise("NoReturn")
                      ELSE LET start_date == parse_google_calendar_recurrence_rule(
                                    ToInt(Val(repeat_day_week_number)),
                                    Val(repeat_day_name), now)
                           IN  Ok([repeat_on EXCEPT
                                     !.starts_on = start_date,
                                     !.ends_on = Some(add_minutes(start_date, 5)),
                                     !.repeat_till = until])
    ELSE Ok(repeat_on)

\* the last branch, which tests repeat_till against "Yearly"
YearlyBranch(repeat_on, until) ==
    IF repeat_on.repeat_till = Some("Yearly")
    THEN Ok([repeat_on EXCEPT !.ends_on = None, !.repeat_till = until])
    ELSE Ok(repeat_on)

\* The branches run one after the other; an exception raised in one ends
\* the call.
google_calendar_to_repeat_on(start, end, recurrence, now) ==
    LET seed == SeedRepeatOn(start, end, now)
    IN  IF recurrence = <<>> THEN Ok(seed)
        ELSE LET p == get_recurrence_parameters(recurrence)
                 mapped == [seed EXCEPT !.repeat_on =
                                IF p.frequency = None THEN None
                                ELSE Get(google_calendar_frequencies, Val(p.frequency))]
                 daily   == DailyBranch(mapped, p.until)
                 weekly  == IF daily.status = "ok"
                            THEN WeeklyBranch(daily.value, p.until, p.byday)
                            ELSE daily
                 monthly == IF weekly.status = "ok"
                            THEN MonthlyBranch(weekly.value, p.until, p.byday, now)
                            ELSE weekly
             IN  IF monthly.status = "ok"
                 THEN YearlyBranch(monthly.value, p.until)
                 ELSE monthly

----------------------------------------------------------------------------
(* repeat_on_to_google_calendar_recurrence_rule *)

RECURSIVE ByDayOfFlagsSundayFirst(_, _)
\* ByDayOfFlags going through the weekdays from Sunday back to Monday
ByDayOfFlagsSundayFirst(doc, i) ==
    IF i > Len(get_weekdays) THEN <<>>
    ELSE LET day == LowerWeekdays[i]
         IN  ByDayOfFlagsSundayFirst(doc, i + 1)
                \o (IF doc[day] # 0 THEN <<framework_days[day]>> ELSE <<>>)

RECURSIVE ByDayOfFlags(_, _)
\* [framework_days.get(day.lower()) for day in weekdays if doc.get(day.lower())],
\* from the i-th weekday on
ByDayOfFlags(doc, i) ==
    IF i > Len(get_weekdays) THEN <<>>
    ELSE LET day == LowerWeekdays[i]
         IN  (IF doc[day] # 0 THEN <<framework_days[day]>> ELSE <<>>)
                \o ByDayOfFlags(doc, i + 1)

\* week_number + framework_days.get(week_day) for the record's starts_on
ByDayOfStart(doc) ==
    LET week_number == Str(get_week_number(doc.starts_on))
        week_day == LowerWeekdays[Weekday(doc.starts_on) + 1]
    IN  week_number \o framework_days[week_day]

\* The rule is built in the entry of the table itself: `recurrence` is the
\* object framework_frequencies holds, so the assignments to its keys are
\* assignments to the table. The result is [table, ret].
repeat_on_to_google_calendar_recurrence_rule(table, doc) ==
    LET key == IF doc.repeat_on = None THEN None ELSE Get(table, Val(doc.repeat_on))
    IN  IF key = None
        THEN [table |-> table,
              ret   |-> IF doc.repeat_till # None THEN Raise("TypeError") ELSE Ok(None)]
        ELSE LET k  == Val(doc.repeat_on)
                 r0 == table[k]
                 r1 == IF k = "Weekly"
                         THEN Put(r0, "BYDAY", ByDayOfFlags(doc, 1))
                       ELSE IF k = "Monthly"
                         THEN Put(r0, "BYDAY", ByDayOfStart(doc))
                       ELSE r0
                 r2 == IF doc.repeat_till # None
                         THEN Put(r1, "UNTIL", getdate(Val(doc.repeat_till)))
                       ELSE r1
             IN  [table |-> [table EXCEPT ![k] = r2], ret |-> Ok(Some(r2))]

\* the records the translator is called with
FlagDayOrder == <<"friday", "monday", "sunday", "wednesday", "tuesday",
                  "thursday", "saturday">>
FlagDays == { FlagDayOrder[i] : i \in 1..Min(NumFlagDays, 7) }

RepeatOns ==
    { None } \cup { Some(k) : k \in (DOMAIN InitialFrameworkFrequencies) \cup {"Hourly"} }

DocStarts ==
    { [date |-> Ordinal(2023, 7, 31), minute |-> 600],
      [date |-> Ordinal(2023, 10, 2), minute |-> 0] }

DocTills == { None, Some([date |-> Ordinal(2025, 1, 1), minute |-> 1080]) }

Doc(repeat_on, set, starts_on, repeat_till) ==
    [ f \in {"repeat_on", "starts_on", "repeat_till"} \cup DayNameSet |->
        CASE f = "repeat_on"   -> repeat_on
          [] f = "starts_on"   -> starts_on
          [] f = "repeat_till" -> repeat_till
          [] OTHER             -> IF f \in set THEN 1 ELSE 0 ]

Docs ==
    { Doc(r, set, s, t) :
        r \in RepeatOns, set \in SUBSET FlagDays, s \in DocStarts, t \in DocTills }

----------------------------------------------------------------------------
(* The rules and timestamps the inbound translator is called with *)

RECURSIVE Join(_, _)
\* sep.join(parts)
Join(parts, sep) ==
    IF parts = <<>> THEN ""
    ELSE IF Len(parts) = 1 THEN parts[1]
    ELSE parts[1] \o sep \o Join(Tail(parts), sep)

RECURSIVE CodesOf(_, _)
\* the codes of the weekdays numbered in S, Monday first, from weekday i on
CodesOf(S, i) ==
    IF i > 7 THEN <<>>
    ELSE (IF i \in S THEN <<DayCodes[i]>> ELSE <<>>) \o CodesOf(S, i + 1)

\* the weekday-code lists of weekly rules: up to MaxByDay codes Monday
\* first, and one list in another order
ByDayLists ==
    { CodesOf(S, 1) : S \in { T \in SUBSET (1..7) : Cardinality(T) \in 1..MaxByDay } }
        \cup { <<"FR", "MO", "WE">> }

WeeklyByDay(codes) == "BYDAY=" \o Join(codes, ",")

\* the week numbers of monthly rules
WeekNumbers == {-2, -1, 1, 2, 3, 4, 5}

MonthlyByDay(n, code) == "BYDAY=" \o Str(n) \o code

FrequencyTokens ==
    (DOMAIN google_calendar_frequencies) \cup {"RRULE:FREQ=HOURLY", "FREQ=WEEKLY"}

UntilTokens == {"UNTIL=20250101T000000Z"}

ByDayTokens ==
    { WeeklyByDay(l) : l \in ByDayLists }
        \cup { MonthlyByDay(n, DayCodes[i]) : n \in WeekNumbers, i \in 1..7 }
        \cup { "BYDAY=MO,XX", "BYDAY=1XX" }

Opt(S) == { <<>> } \cup { <<x>> : x \in S }

\* a rule: a frequency, then optionally UNTIL and BYDAY; or the same
\* behind a token of another key, in the opposite order
Rules ==
    { <<>> }
    \cup { <<f>> \o u \o b : f \in FrequencyTokens, u \in Opt(UntilTokens), b \in Opt(ByDayTokens) }
    \cup { <<"WKST=SU">> \o b \o u \o <<f>> :
              f \in FrequencyTokens, u \in Opt(UntilTokens), b \in Opt(ByDayTokens) }

\* the clock readings: every 41st day, at midnight or at 23:57
Nows ==
    { [date |-> FirstDate + 41 * k, minute |-> IF k % 2 = 0 THEN 0 ELSE 1437] :
        k \in 0..(NumNows - 1) }

Starts == { None, Some([date |-> Ordinal(2023, 7, 31), minute |-> 600]) }
Ends   == { None, Some([date |-> Ordinal(2023, 7, 31), minute |-> 660]) }

\* the tokens get_recurrence_parameters is called with directly
ParameterTokens ==
    { "RRULE:FREQ=DAILY", "RRULE:FREQ=WEEKLY", "UNTIL=20250101", "UNTIL=20210912",
      "BYDAY=MO", "BYDAY=FR,MO", "WKST=SU", "FREQ=WEEKLY;UNTIL=20210912;BYDAY=FR" }

TokenLists ==
    UNION { [1..n -> ParameterTokens] : n \in 0..MaxTokens }

----------------------------------------------------------------------------
\* the names of the site's Google Calendar documents
CalendarNames == {"Work", "Home"}

\* no Event yet, and Google Calendar documents that have not been authorized
InitialDb ==
    [ Event          |-> {},
      GoogleCalendar |-> [c \in CalendarNames |->
                            [authorization_code |-> None, refresh_token |-> None]] ]

\* a site with no Event, an empty cache and no consent flow under way
InitSite ==
    /\ local = None
    /\ db = InitialDb
    /\ cache = None
    /\ flows = [pending |-> {}, issued |-> 0]

Init ==
    /\ InitSite
    /\ framework_frequencies = InitialFrameworkFrequencies
    /\ op = "none"
    /\ args = None
    /\ ret = None
    /\ prev = None

\* a call of repeat_on_to_google_calendar_recurrence_rule, on the table the
\* earlier calls left
CallRepeatOnToRule ==
    \E doc \in Docs :
        LET r == repeat_on_to_google_calendar_recurrence_rule(framework_frequencies, doc)
        IN  /\ framework_frequencies' = r.table
            /\ op' = "repeat_on_to_google_calendar_recurrence_rule"
            /\ args' = [doc |-> doc]
            /\ ret' = r.ret
            /\ prev' = None
            /\ UNCHANGED site

Next == CallRepeatOnToRule

Spec == Init /\ [][Next]_vars

----------------------------------------------------------------------------
(* Calls of the inbound translator: the arguments are drawn when the      *)
(* behaviour starts, and the call computes the outcome from them           *)

InitInbound ==
    /\ InitSite
    /\ framework_frequencies = InitialFrameworkFrequencies
    /\ ret = None
    /\ prev = None
    /\ \/ /\ op = "get_recurrence_parameters"
          /\ args \in { [recurrence |-> r] : r \in TokenLists }
       \/ /\ op = "google_calendar_to_repeat_on"
          /\ args \in { [start |-> s, end |-> e, recurrence |-> r, now |-> n] :
                          s \in Starts, e \in Ends, r \in Rules, n \in Nows }

CallGetRecurrenceParameters ==
    /\ op = "get_recurrence_parameters"
    /\ ret = None
    /\ ret' = Ok(get_recurrence_parameters(args.recurrence))
    /\ UNCHANGED <<framework_frequencies, op, args, prev>>
    /\ UNCHANGED site

CallGoogleCalendarToRepeatOn ==
    /\ op = "google_calendar_to_repeat_on"
    /\ ret = None
    /\ ret' = google_calendar_to_repeat_on(args.start, args.end, args.recurrence, args.now)
    /\ UNCHANGED <<framework_frequencies, op, args, prev>>
    /\ UNCHANGED site

NextInbound == CallGetRecurrenceParameters \/ CallGoogleCalendarToRepeatOn

SpecInbound == InitInbound /\ [][NextInbound]_vars

----------------------------------------------------------------------------
(* Calls of get_week_number: on a date drawn when the behaviour starts,  *)
(* then on the dates 7 days after it, one after the other                  *)

InitWeek ==
    /\ InitSite
    /\ framework_frequencies = InitialFrameworkFrequencies
    /\ op = "get_week_number"
    /\ args \in { [dt |-> dt] : dt \in Dates }
    /\ ret = None
    /\ prev = None

CallGetWeekNumber ==
    /\ op = "get_week_number"
    /\ ret = None
    /\ ret' = Ok(get_week_number(args.dt))
    /\ UNCHANGED <<framework_frequencies, op, args, prev>>
    /\ UNCHANGED site

\* get_week_number on the date 7 days after the one of the last call
CallGetWeekNumberNextWeek ==
    /\ op = "get_week_number"
    /\ ret # None
    /\ LET dt == add_days(args.dt, 7)
       IN  /\ dt \in Dates
           /\ args' = [dt |-> dt]
           /\ ret' = Ok(get_week_number(dt))
           /\ prev' = Some([dt |-> args.dt, week |-> ret.value])
    /\ UNCHANGED <<framework_frequencies, op>>
    /\ UNCHANGED site

NextWeek == CallGetWeekNumber \/ CallGetWeekNumberNextWeek

SpecWeek == InitWeek /\ [][NextWeek]_vars

----------------------------------------------------------------------------
(* Vocabulary of the properties *)

Range(seq) == { seq[i] : i \in 1..Len(seq) }

CalledOutbound == op = "repeat_on_to_google_calendar_recurrence_rule"
ReturnedInbound == op = "google_calendar_to_repeat_on" /\ ret # None
ReturnedParameters == op = "get_recurrence_parameters" /\ ret # None
ReturnedWeek == op = "get_week_number" /\ ret # None

\* the rule's frequency token is the table's key for the frequency code
HasFrequency(recurrence, code) == ("RRULE:FREQ=" \o code) \in Range(recurrence)

\* the UNTIL token of a rule, or None
RuleUntil(recurrence) ==
    IF \E t \in UntilTokens : t \in Range(recurrence)
    THEN Some(CHOOSE t \in UntilTokens : t \in Range(recurrence))
    ELSE None

\* the end date/time an UNTIL token carries: the text after "UNTIL="
RuleUntilValue(recurrence) ==
    IF RuleUntil(recurrence) = None THEN None
    ELSE Some(SubSeq(Val(RuleUntil(recurrence)), Len("UNTIL=") + 1,
                     Len(Val(RuleUntil(recurrence)))))

FrequencyNames == {"Daily", "Weekly", "Monthly", "Yearly"}

----------------------------------------------------------------------------
(* C1, C2: the outbound translator and the shared table *)

\* C1: after any sequence of calls of
\* repeat_on_to_google_calendar_recurrence_rule the table
\* framework_frequencies equals its initial value, each frequency mapping
\* to a mapping with the single key FREQ.
C1_TableNeverChanges ==
    /\ \A k \in DOMAIN framework_frequencies :
            DOMAIN framework_frequencies[k] = {"FREQ"}
    /\ framework_frequencies = InitialFrameworkFrequencies

\* C2: a call with repeat_on Daily, Weekly, Monthly or Yearly, after any
\* earlier calls, returns a mapping that has the key UNTIL exactly when the
\* record's repeat_till is set, and UNTIL is then the date of repeat_till.
C2_UntilIffRepeatTill ==
    (CalledOutbound /\ args.doc.repeat_on \in { Some(k) : k \in FrequencyNames }) =>
        /\ ret.status = "ok"
        /\ ret.value # None
        /\ ("UNTIL" \in DOMAIN Val(ret.value)) <=> (args.doc.repeat_till # None)
        /\ args.doc.repeat_till # None =>
                Val(ret.value)["UNTIL"] = Val(args.doc.repeat_till).date

----------------------------------------------------------------------------
(* C3, C4, C5, C7, C8: the inbound translator *)

C4_DailyRepeatTill ==
    (ReturnedInbound /\ HasFrequency(args.recurrence, "DAILY")) =>
        /\ ret.status = "ok"
        /\ ret.value.repeat_on = Some("Daily")
        /\ ret.value.ends_on = None
        /\ ret.value.repeat_till = RuleUntilValue(args.recurrence)

\* C5: for a rule whose frequency is YEARLY, google_calendar_to_repeat_on
\* returns a config with repeat_on = Yearly, ends_on None and repeat_till
\* the rule's UNTIL, as for Daily.
C5_YearlyClearsEndsOn ==
    (ReturnedInbound /\ HasFrequency(args.recurrence, "YEARLY")) =>
        /\ ret.status = "ok"
        /\ ret.value.repeat_on = Some("Yearly")
        /\ ret.value.ends_on = None
        /\ ret.value.repeat_till = RuleUntil(args.recurrence)

\* the frequency token of a rule: its token with the key FREQ
RuleFrequency(recurrence) ==
    CHOOSE t \in FrequencyTokens : t \in Range(recurrence)

\* C7: an unknown frequency token or weekday code never yields a result:
\* google_calendar_to_repeat_on on a rule whose frequency token is not in
\* the frequency table, or on a Weekly rule whose BYDAY has a code outside
\* MO..SU, and repeat_on_to_google_calendar_recurrence_rule on a repeat_on
\* outside Daily/Weekly/Monthly/Yearly, each end in a lookup error.
C7_UnknownKeyRaises ==
    /\ (ReturnedInbound /\ args.recurrence # <<>>
            /\ RuleFrequency(args.recurrence) \notin DOMAIN google_calendar_frequencies) =>
                ret.status \in {"KeyError", "IndexError"}
    /\ (ReturnedInbound /\ HasFrequency(args.recurrence, "WEEKLY")
            /\ "BYDAY=MO,XX" \in Range(args.recurrence)) =>
                ret.status \in {"KeyError", "IndexError"}
    /\ (CalledOutbound /\ args.doc.repeat_on # None
            /\ Val(args.doc.repeat_on) \notin FrequencyNames) =>
                ret.status \in {"KeyError", "IndexError"}

----------------------------------------------------------------------------
(* C6: get_recurrence_parameters *)

\* the key a token counts for in the if / elif chain, "" when none
KeyOf(r) ==
    IF Contains("FREQ", r) THEN "FREQ"
    ELSE IF Contains("UNTIL", r) THEN "UNTIL"
    ELSE IF Contains("BYDAY", r) THEN "BYDAY"
    ELSE ""

LastOf(recurrence, key) ==
    LET at == { i \in 1..Len(recurrence) : KeyOf(recurrence[i]) = key }
    IN  IF at = {} THEN None
        ELSE Some(recurrence[CHOOSE i \in at : \A j \in at : j <= i])

FirstOf(recurrence, key) ==
    LET at == { i \in 1..Len(recurrence) : KeyOf(recurrence[i]) = key }
    IN  IF at = {} THEN None
        ELSE Some(recurrence[CHOOSE i \in at : \A j \in at : i <= j])

\* C6 as stated: first match wins per key: the frequency, until and byday
\* returned are each the first token of the list that carries that key.
C6_FirstMatchWins ==
    ReturnedParameters =>
        /\ ret.value.frequency = FirstOf(args.recurrence, "FREQ")
        /\ ret.value.until = FirstOf(args.recurrence, "UNTIL")
        /\ ret.value.byday = FirstOf(args.recurrence, "BYDAY")

\* C6 as amended: last match wins per key, a token counting for one key
\* only (FREQ if it contains "FREQ", else UNTIL if it contains "UNTIL", else
\* BYDAY if it contains "BYDAY"): the frequency, until and byday returned are
\* each the last token of the list counting for that key, None when there is
\* none; tokens counting for no key do not affect the result.
C6_LastMatchWins ==
    ReturnedParameters =>
        /\ ret.value.frequency = LastOf(args.recurrence, "FREQ")
        /\ ret.value.until = LastOf(args.recurrence, "UNTIL")
        /\ ret.value.byday = LastOf(args.recurrence, "BYDAY")

C6_Witness ==
    /\ ReturnedParameters
    /\ args.recurrence = <<"UNTIL=20250101", "WKST=SU", "UNTIL=20210912">>
    /\ ret.value.until = Some("UNTIL=20210912")

----------------------------------------------------------------------------
(* C9, C10: get_week_number *)

OccurrenceInMonth(dt) == (DayOf(dt) - 1) \div 7 + 1

----------------------------------------------------------------------------
(* parse_google_calendar_recurrence_rule, one loop iteration at a time:   *)
(* the arguments and the value of now_datetime() are drawn when the        *)
(* behaviour starts                                                        *)

\* the most loop iterations a call is followed for
MaxSolverSteps == 80

\* the lower-case weekday names the inbound translator passes
LowerDayNames == { LowerWeekdays[i] : i \in 1..7 }

\* WeeksToAdd stepping two weeks at a time
WeeksToAddTwo(week_number, repeat_day_week_number) ==
    IF week_number < repeat_day_week_number THEN 2 ELSE -2

\* weeks = 1 if week_number < repeat_day_week_number else -1
WeeksToAdd(week_number, repeat_day_week_number) ==
    IF week_number < repeat_day_week_number THEN 1 ELSE -1


InitSolver ==
    /\ framework_frequencies = InitialFrameworkFrequencies
    /\ op = "parse_google_calendar_recurrence_rule"
    /\ args \in { [repeat_day_week_number |-> n, repeat_day_name |-> d, now |-> t] :
                    n \in WeekNumbers, d \in LowerDayNames, t \in Dates }
    /\ ret = None
    /\ prev = None
    /\ local = Some([pc |-> "enter"])
    /\ db = InitialDb
    /\ cache = None
    /\ flows = [pending |-> {}, issued |-> 0]

\* the clamp of a negative week number, and current_date = now_datetime()
SolverEnter ==
    /\ op = "parse_google_calendar_recurrence_rule"
    /\ Val(local).pc = "enter"
    /\ local' = Some([pc |-> "day",
                      repeat_day_week_number |-> ClampWeekNumber(args.repeat_day_week_number),
                      current_date |-> args.now,
                      steps |-> 0,
                      moved |-> {}])
    /\ UNCHANGED <<framework_frequencies, op, args, ret, prev, db, cache, flows>>

\* one iteration of "while not isset_day_name"
SolverAlignDay ==
    /\ op = "parse_google_calendar_recurrence_rule"
    /\ Val(local).pc = "day"
    /\ Val(local).steps < MaxSolverSteps
    /\ LET f == Val(local)
           isset_day_name ==
               LowerWeekdays[Weekday(f.current_date) + 1] = args.repeat_day_name
       IN  local' = Some([f EXCEPT
               !.pc = IF isset_day_name THEN "week" ELSE "day",
               !.current_date = IF isset_day_name THEN @ ELSE add_days(@, 1),
               !.steps = @ + 1])
    /\ UNCHANGED <<framework_frequencies, op, args, ret, prev, db, cache, flows>>

\* one iteration of "while not isset_day_number"; moved collects the
\* directions current_date has been moved in
SolverAlignWeek ==
    /\ op = "parse_google_calendar_recurrence_rule"
    /\ Val(local).pc = "week"
    /\ Val(local).steps < MaxSolverSteps
    /\ LET f == Val(local)
           week_number == get_week_number(f.current_date)
           isset_day_number == week_number = f.repeat_day_week_number
           weeks == WeeksToAdd(week_number, f.repeat_day_week_number)
       IN  local' = Some([f EXCEPT
               !.pc = IF isset_day_number THEN "return" ELSE "week",
               !.current_date = IF isset_day_number THEN @ ELSE add_weeks(@, weeks),
               !.moved = IF isset_day_number THEN @ ELSE @ \cup {weeks},
               !.steps = @ + 1])
    /\ UNCHANGED <<framework_frequencies, op, args, ret, prev, db, cache, flows>>

\* return current_date
SolverReturn ==
    /\ op = "parse_google_calendar_recurrence_rule"
    /\ Val(local).pc = "return"
    /\ ret' = Ok(Val(local).current_date)
    /\ local' = Some([Val(local) EXCEPT !.pc = "done"])
    /\ UNCHANGED <<framework_frequencies, op, args, prev, db, cache, flows>>

NextSolver == SolverEnter \/ SolverAlignDay \/ SolverAlignWeek \/ SolverReturn

SpecSolver == InitSolver /\ [][NextSolver]_vars

InSolver == op = "parse_google_calendar_recurrence_rule"
SolverDone == InSolver /\ Val(local).pc = "done"

\* C11: for every weekday name, every week number of the candidate list and
\* every current date, a call of parse_google_calendar_recurrence_rule that
\* has not returned can take its next step within MaxSolverSteps loop
\* iterations, so both loops stop, and the second loop never moves the date
\* in both directions
C11_LoopsStop ==
    InSolver =>
        /\ Val(local).pc = "done" \/ ENABLED NextSolver
        /\ Val(local).pc # "enter" => Cardinality(Val(local).moved) <= 1

\* a call has returned after the second loop crossed a month boundary
C11_Witness ==
    /\ SolverDone
    /\ Val(local).moved # {}
    /\ ~SameMonth(AlignDayName(args.now, args.repeat_day_name), Val(local).current_date)

\* the steps reach the date the loops of the inbound translator's model reach
SolverAgrees ==
    SolverDone =>
        ret = Ok(parse_google_calendar_recurrence_rule(
                    args.repeat_day_week_number, args.repeat_day_name, args.now))

\* C12: the date parse_google_calendar_recurrence_rule returns falls on the
\* requested weekday, and get_week_number of it is the requested week
\* number, or 4 when the requested one is negative
C12_ReturnedDate ==
    SolverDone =>
        /\ ret.status = "ok"
        /\ LowerWeekdays[Weekday(ret.value) + 1] = args.repeat_day_name
        /\ args.repeat_day_week_number > 0 =>
               get_week_number(ret.value) = args.repeat_day_week_number
        /\ args.repeat_day_week_number < 0 => get_week_number(ret.value) = 4

\* the call for BYDAY=-1SU has returned a Sunday of week 4
C12_Witness ==
    /\ SolverDone
    /\ args.repeat_day_week_number = -1
    /\ args.repeat_day_name = "sunday"
    /\ Weekday(ret.value) = 6
    /\ get_week_number(ret.value) = 4

----------------------------------------------------------------------------
(* Calls of the outbound translator with Weekly records of every          *)
(* combination of the seven weekday flags, each on the table the earlier   *)
(* calls left                                                              *)

WeeklyDocs ==
    { Doc(Some("Weekly"), set, [date |-> Ordinal(2023, 7, 31), minute |-> 600], t) :
        set \in SUBSET DayNameSet, t \in DocTills }

CallRepeatOnToRuleWeekly ==
    \E doc \in WeeklyDocs :
        LET r == repeat_on_to_google_calendar_recurrence_rule(framework_frequencies, doc)
        IN  /\ framework_frequencies' = r.table
            /\ op' = "repeat_on_to_google_calendar_recurrence_rule"
            /\ args' = [doc |-> doc]
            /\ ret' = r.ret
            /\ prev' = None
            /\ UNCHANGED site

NextWeekly == CallRepeatOnToRuleWeekly

SpecWeekly == Init /\ [][NextWeekly]_vars

\* the numbers, Monday = 1, of the weekdays whose flag is set in a record
FlagsSet(doc) == { i \in 1..7 : doc[DayNames[i]] = 1 }

\* C13: for a Weekly record, whatever its seven weekday flags and whatever
\* the calls before, the rule returned has FREQ = WEEKLY and as BYDAY the
\* list of the codes of exactly the flags that are set, Monday first
C13_WeeklyRule ==
    (CalledOutbound /\ args.doc.repeat_on = Some("Weekly")) =>
        /\ ret.status = "ok"
        /\ ret.value # None
        /\ Val(ret.value)["FREQ"] = "WEEKLY"
        /\ Val(ret.value)["BYDAY"] = CodesOf(FlagsSet(args.doc), 1)

\* a Weekly record with the flags of Monday, Wednesday and Sunday has been
\* translated
C13_Witness ==
    /\ CalledOutbound
    /\ args.doc.repeat_on = Some("Weekly")
    /\ FlagsSet(args.doc) = {1, 3, 7}
    /\ Val(ret.value)["BYDAY"] = <<"MO", "WE", "SU">>

----------------------------------------------------------------------------
(* The Monthly round trip: a Monthly record is translated outbound, and   *)
(* the rule it gives comes back through the inbound translator. The        *)
(* record's starts_on and the value of now_datetime() are drawn when the   *)
(* behaviour starts                                                        *)

\* the rule as the inbound translator receives it, in the form of its
\* docstring: RRULE:FREQ=<FREQ>;BYDAY=<BYDAY>, split at ";"
RuleTokens(rule) == << "RRULE:FREQ=" \o rule["FREQ"], "BYDAY=" \o rule["BYDAY"] >>

InitRoundTrip ==
    /\ InitSite
    /\ framework_frequencies = InitialFrameworkFrequencies
    /\ op = "none"
    /\ args \in { [doc |-> Doc(Some("Monthly"), {}, s, None), now |-> n] :
                    s \in Dates, n \in Nows }
    /\ ret = None
    /\ prev = None

CallRepeatOnToRuleMonthly ==
    /\ op = "none"
    /\ LET r == repeat_on_to_google_calendar_recurrence_rule(framework_frequencies, args.doc)
       IN  /\ framework_frequencies' = r.table
           /\ op' = "repeat_on_to_google_calendar_recurrence_rule"
           /\ ret' = r.ret
    /\ UNCHANGED <<args, prev>>
    /\ UNCHANGED site

\* google_calendar_to_repeat_on on the rule the outbound call returned, with
\* the record's starts_on as start and end
CallGoogleCalendarToRepeatOnBack ==
    /\ op = "repeat_on_to_google_calendar_recurrence_rule"
    /\ ret.status = "ok"
    /\ ret.value # None
    /\ LET recurrence == RuleTokens(Val(ret.value))
           start == Some(args.doc.starts_on)
       IN  /\ op' = "google_calendar_to_repeat_on"
           /\ args' = [start |-> start, end |-> start,
                       recurrence |-> recurrence, now |-> args.now]
           /\ ret' = google_calendar_to_repeat_on(start, start, recurrence, args.now)
           /\ prev' = Some([doc |-> args.doc, rule |-> Val(ret.value)])
    /\ UNCHANGED framework_frequencies
    /\ UNCHANGED site

NextRoundTrip == CallRepeatOnToRuleMonthly \/ CallGoogleCalendarToRepeatOnBack

SpecRoundTrip == InitRoundTrip /\ [][NextRoundTrip]_vars

RoundTripDone == op = "google_calendar_to_repeat_on" /\ ret # None /\ prev # None

\* C14: for every starts_on of a Monthly record, the rule the outbound
\* translator returns is read back by google_calendar_to_repeat_on without
\* an error, into a starts_on of the same weekday and the same
\* get_week_number as the record's
C14_MonthlyRoundTrip ==
    RoundTripDone =>
        /\ ret.status = "ok"
        /\ Weekday(ret.value.starts_on) = Weekday(Val(prev).doc.starts_on)
        /\ get_week_number(ret.value.starts_on) =
                get_week_number(Val(prev).doc.starts_on)

----------------------------------------------------------------------------
(* The static tables *)

FrequencyCodes == {"DAILY", "WEEKLY", "MONTHLY", "YEARLY"}

\* the key google_calendar_frequencies has for a frequency code
FrequencyKey(f) == "RRULE:FREQ=" \o f

\* C15: the weekday tables are inverses (framework_days of
\* google_calendar_days of a code is the code), and for each of the four
\* frequency codes f the FREQ value framework_frequencies holds for the
\* local name of f is f, in a form whose key google_calendar_frequencies
\* maps back to that name
C15_TablesInverse ==
    /\ \A c \in DayCodeSet : framework_days[google_calendar_days[c]] = c
    /\ \A f \in FrequencyCodes :
          LET name == google_calendar_frequencies[FrequencyKey(f)]
              freq == framework_frequencies[name]["FREQ"]
          IN  /\ freq = f
              /\ FrequencyKey(freq) \in DOMAIN google_calendar_frequencies
              /\ google_calendar_frequencies[FrequencyKey(freq)] = name

----------------------------------------------------------------------------
(* The sync from Google: insert_event_to_calendar and                     *)
(* update_event_in_calendar, called as parse_calendar_events calls them    *)
(* for the CONFIRMED events of a calendar                                  *)

Pad2(n) == IF n < 10 THEN "0" \o ToString(n) ELSE ToString(n)

\* dt.strftime("%Y-%m-%d %H:%M")
Strftime(dt) ==
    LET c == Civil(dt.date)
    IN  ToString(c.year) \o "-" \o Pad2(c.month) \o "-" \o Pad2(c.day) \o " "
            \o Pad2(dt.minute \div 60) \o ":" \o Pad2(dt.minute % 60)

get_event_id(event) == event.SUMMARY \o "|" \o Strftime(event.DTSTART)

\* the events a calendar delivers: none of them has an RRULE
Summaries == {"Standup", ""}
Descriptions == { None, Some("Room 1"), Some("Room 2") }
EventEnds == { None, Some([date |-> Ordinal(2023, 7, 31), minute |-> 660]) }

Events ==
    { [SUMMARY |-> s, DESCRIPTION |-> d,
       DTSTART |-> [date |-> Ordinal(2023, 7, 31), minute |-> 600], DTEND |-> e] :
        s \in Summaries, d \in Descriptions, e \in EventEnds }

\* the values of now_datetime() during the sync
SyncNows == { [date |-> Ordinal(2023, 8, 1), minute |-> 540] }

\* frappe.db.exists("Event", {"google_calendar_event_id": event_id})
EventExists(event_id) == \E d \in db.Event : d.google_calendar_event_id = event_id

\* frappe.get_doc("Event", {"google_calendar_event_id": event_id})
GetEvent(event_id) == CHOOSE d \in db.Event : d.google_calendar_event_id = event_id

\* dict.update(other) and Document.update(other)
Update(doc, other) ==
    [k \in (DOMAIN doc) \cup (DOMAIN other) |->
        IF k \in DOMAIN other THEN other[k] ELSE doc[k]]

\* called for the events the database has no Event for
InsertEventToCalendar ==
    \E event \in { e \in Events : ~EventExists(get_event_id(e)) } :
      \E account \in CalendarNames, now \in SyncNows :
        \E repeat_on \in { google_calendar_to_repeat_on(
                               Some(event.DTSTART), event.DTEND, <<>>, now) } :
          /\ LET calendar_event ==
                     [ subject |-> IF event.SUMMARY # "" THEN event.SUMMARY ELSE "No Subject",
                       description |-> event.DESCRIPTION,
                       google_calendar |-> account,
                       google_calendar_event_id |-> get_event_id(event),
                       pulled_from_google_calendar |-> 1 ]
             IN  db' = [db EXCEPT !.Event = @ \cup {Update(calendar_event, repeat_on.value)}]
          /\ op' = "insert_event_to_calendar"
          /\ args' = [account |-> account, update_event |-> event]
          /\ ret' = Ok(None)
          /\ prev' = None
          /\ UNCHANGED <<framework_frequencies, local, cache, flows>>

\* the two tests of update_event_in_calendar: each compares the stored
\* field with the incoming one a second time where it stands, assigns
\* nothing to calendar_event, and sets update_content
UpdateContent(calendar_event, update_event) ==
    [ calendar_event |-> calendar_event,
      update_content |->
          \/ calendar_event.subject # update_event.SUMMARY
          \/ calendar_event.description # update_event.DESCRIPTION ]

\* called for the events the database has an Event for;
\* update_event.get("DTEND").dt raises when the event has no DTEND
UpdateEventInCalendar ==
    \E event \in { e \in Events : EventExists(get_event_id(e)) } :
      \E account \in CalendarNames, now \in SyncNows :
        \E stored \in { GetEvent(get_event_id(event)) } :
          /\ IF event.DTEND = None
             THEN /\ ret' = Raise("AttributeError")
                  /\ db' = db
             ELSE \E repeat_on \in { google_calendar_to_repeat_on(
                                         Some(event.DTSTART), event.DTEND, <<>>, now) },
                     u \in { UpdateContent(stored, event) } :
                    /\ ret' = Ok(None)
                    /\ db' = IF u.update_content
                             THEN [db EXCEPT !.Event = (@ \ {stored}) \cup
                                        {Update(u.calendar_event, repeat_on.value)}]
                             ELSE db
          /\ op' = "update_event_in_calendar"
          /\ args' = [account |-> account, update_event |-> event]
          /\ prev' = Some([calendar_event |-> stored])
          /\ UNCHANGED <<framework_frequencies, local, cache, flows>>

NextSync == InsertEventToCalendar \/ UpdateEventInCalendar

SpecSync == Init /\ [][NextSync]_vars

UpdatedEvent == op = "update_event_in_calendar" /\ ret.status = "ok"

\* C16: when update_event_in_calendar has returned for an event whose
\* SUMMARY or DESCRIPTION differed from the stored subject or description,
\* the Event in the database has the incoming SUMMARY as subject and the
\* incoming DESCRIPTION as description
C16_ContentSaved ==
    UpdatedEvent =>
        LET before == Val(prev).calendar_event
            saved  == GetEvent(get_event_id(args.update_event))
        IN  (\/ before.subject # args.update_event.SUMMARY
             \/ before.description # args.update_event.DESCRIPTION) =>
                /\ saved.subject = args.update_event.SUMMARY
                /\ saved.description = args.update_event.DESCRIPTION

----------------------------------------------------------------------------
(* The consent flow: authorize_access, called from the form of a Google   *)
(* Calendar document, and google_callback, called when Google redirects    *)
(* the browser back with the authorization code of a flow. The requests    *)
(* run one at a time, in any order. An authorization code is written as    *)
(* the flow it was issued for: [calendar, serial]                          *)

\* the most consent flows started in a behaviour
MaxFlows == 3

\* the exchange of the code for tokens, and the set_value of refresh_token
\* when the answer has one: the else branch of authorize_access
ExchangeCode(docs, google_calendar, granted) ==
    IF granted
    THEN [docs EXCEPT ![google_calendar].refresh_token =
                            docs[google_calendar].authorization_code]
    ELSE docs

\* authorize_access(g_calendar, reauthorize) as a request of its own
AuthorizeAccess ==
    \E g_calendar \in CalendarNames, reauthorize \in BOOLEAN, granted \in BOOLEAN :
        LET google_calendar == db.GoogleCalendar[g_calendar]
        IN  /\ IF google_calendar.authorization_code = None \/ reauthorize
               THEN /\ flows.issued < MaxFlows
                    /\ cache' = Some(g_calendar)
                    /\ flows' = [pending |-> flows.pending \cup
                                    {[calendar |-> g_calendar, serial |-> flows.issued + 1]},
                                 issued  |-> flows.issued + 1]
                    /\ ret' = Ok(Some("url"))
                    /\ db' = db
               ELSE /\ db' = [db EXCEPT !.GoogleCalendar =
                                    ExchangeCode(@, g_calendar, granted)]
                    /\ ret' = Ok(None)
                    /\ UNCHANGED <<cache, flows>>
            /\ op' = "authorize_access"
            /\ args' = [g_calendar |-> g_calendar, reauthorize |-> reauthorize]
            /\ prev' = None
            /\ UNCHANGED <<framework_frequencies, local>>

\* google_callback(code) for the code of a pending flow: the calendar is
\* the one the cache names (a flow is pending only after an hset), and the
\* call of authorize_access that ends it finds the code just stored and
\* exchanges it
GoogleCallback ==
    \E code \in flows.pending, granted \in BOOLEAN :
        /\ cache # None
        /\ LET google_calendar == Val(cache)
               stored == [db.GoogleCalendar EXCEPT
                            ![google_calendar].authorization_code = Some(code)]
           IN  db' = [db EXCEPT !.GoogleCalendar =
                            ExchangeCode(stored, google_calendar, granted)]
        /\ flows' = [flows EXCEPT !.pending = @ \ {code}]
        /\ op' = "google_callback"
        /\ args' = [code |-> code]
        /\ ret' = Ok(None)
        /\ prev' = None
        /\ UNCHANGED <<framework_frequencies, local, cache>>

NextOAuth == AuthorizeAccess \/ GoogleCallback

SpecOAuth == Init /\ [][NextOAuth]_vars

\* C17: under every interleaving of authorize_access and google_callback
\* requests, the authorization code a Google Calendar document holds is the
\* code of a flow that this calendar's authorize_access started
C17_CodeOnOwnCalendar ==
    \A c \in CalendarNames :
        LET code == db.GoogleCalendar[c].authorization_code
        IN  code # None => Val(code).calendar = c

=============================================================================
